---- MODULE Spec2Model ----
(***************************************************************************)
(* Model of the grokipedia_api_sdk request pipeline                         *)
(* (src/grokipedia_api_sdk/client.py, exceptions.py, models.py).            *)
(*                                                                          *)
(* One instance of each facade is modelled, both constructed with the same  *)
(* arguments.  The configuration is chosen at construction (Init); the      *)
(* scope lifecycle (__enter__/__exit__), the four operations and the retry  *)
(* loop of _request are the actions.  A call is split at its blocking       *)
(* points: one action per HTTP attempt (with all the exception handling     *)
(* that follows it, and the response mapping on 2xx) and one action per     *)
(* completed backoff sleep.  On the concurrent facade several callers run   *)
(* on one event loop, each a task making its calls one after the other.     *)
(*                                                                          *)
(* Durations are integers in units of 0.05 s (the default factor 0.5 s is   *)
(* 10 units).  JSON numbers are fixed-point integers in thousandths.        *)
(***************************************************************************)
EXTENDS Integers, Sequences, FiniteSets, TLC

(***************************************************************************)
(* Bounds of the model                                                      *)
(***************************************************************************)
\* max_retries ranges over 0 .. MaxRetriesBound
MaxRetriesBound == 3
\* in the specification of the backoff delays, max_retries ranges over
\* 0 .. MaxBackoffRetries
MaxBackoffRetries == 4
\* at most this many connection resources are created in one behaviour
MaxResources == 2
\* with several callers on the concurrent facade, max_retries ranges over
\* 0 .. MaxAsyncRetries
MaxAsyncRetries == 2
\* the number of callers on the event loop of the concurrent facade
MaxTasks == 2
\* the number of calls the callers of the concurrent facade make together
MaxCalls == 3
\* with constructor arguments of every kind, max_retries is left out or
\* ranges over -1 .. MaxConfigRetries
MaxConfigRetries == 2

\* retry_backoff_factor values (units of 0.05 s): the default 0.5 s, and
\* 0.5 s and 1.0 s in the specification of the backoff delays
DefaultBackoffFactor == {10}

BackoffFactors == {10, 20}

(***************************************************************************)
(* Error taxonomy: exceptions.py                                            *)
(***************************************************************************)
\* Python's None / a present value, for optional attributes
None == {}
Some(x) == {x}

\* class -> its direct base class
ExceptionBase ==
    [ GrokipediaError           |-> "Exception",
      GrokipediaAPIError        |-> "GrokipediaError",
      GrokipediaBadRequestError |-> "GrokipediaAPIError",
      GrokipediaNotFoundError   |-> "GrokipediaAPIError",
      GrokipediaRateLimitError  |-> "GrokipediaAPIError",
      GrokipediaServerError     |-> "GrokipediaAPIError",
      GrokipediaNetworkError    |-> "GrokipediaError",
      GrokipediaValidationError |-> "GrokipediaError",
      RuntimeError              |-> "Exception",
      UncaughtHttpxError        |-> "Exception",
      AttributeError            |-> "Exception",
      ValueError                |-> "Exception",
      Exception                 |-> "Exception" ]

IsInstance_Exact(k, cls) == k = cls

RECURSIVE IsInstance(_, _)
\* isinstance(exception of class k, cls)
IsInstance(k, cls) ==
    IF k = cls THEN TRUE
    ELSE IF k = "Exception" THEN FALSE
    ELSE IsInstance(ExceptionBase[k], cls)

\* the kinds of the taxonomy a caller is promised
TaxonomyKinds ==
    { k \in DOMAIN ExceptionBase : IsInstance(k, "GrokipediaError") }

\* An outcome of a call as the caller sees it.  kind is "return", "pending"
\* or the class of the exception raised; site names the statement that
\* ended the call.  GrokipediaAPIError.__init__ stores status_code and
\* response_body; the other classes have no such attributes.
APIErrorOf(cls, status_code, error_body) ==
    [kind |-> cls, status_code |-> Some(status_code),
     response_body |-> error_body, value |-> None, site |-> "status"]

PlainError(cls, site) ==
    [kind |-> cls, status_code |-> None, response_body |-> None,
     value |-> None, site |-> site]

Returned(entity) ==
    [kind |-> "return", status_code |-> None, response_body |-> None,
     value |-> Some(entity), site |-> "return"]

NoResult ==
    [kind |-> "pending", status_code |-> None, response_body |-> None,
     value |-> None, site |-> "pending"]

(***************************************************************************)
(* JSON values and the pydantic models: models.py                           *)
(***************************************************************************)
JStr(s)  == [t |-> "str",  v |-> s]
JNum(m)  == [t |-> "num",  v |-> m]      \* m = 1000 * the number
JBool(b) == [t |-> "bool", v |-> b]
JNull    == [t |-> "null", v |-> {}]
JArr(q)  == [t |-> "arr",  v |-> q]
JObj(f)  == [t |-> "obj",  v |-> f]

PyStr(s)   == [py |-> "str",   v |-> s]
PyInt(n)   == [py |-> "int",   v |-> n]
PyFloat(m) == [py |-> "float", v |-> m]  \* m = 1000 * the number
PyBool(b)  == [py |-> "bool",  v |-> b]
PyList(q)  == [py |-> "list",  v |-> q]
PyDict(f)  == [py |-> "dict",  v |-> f]
PyModel(cls, f) == [py |-> cls, v |-> f]

EmptyDict == [k \in {} |-> {}]

Valid(x) == [ok |-> TRUE,  value |-> x]
Invalid  == [ok |-> FALSE, value |-> {}]

\* the strings of the model that Python's int() accepts, with their value
IntOfString ==
    ("885279" :> 885279) @@ ("90358" :> 90358) @@ ("12345" :> 12345)
        @@ ("0" :> 0)

\* a field declaration: attribute name, wire alias, declared type, whether
\* it is required, its default, and the mode="before" validator on it
Fld(name, alias, type, required, default, before) ==
    [name |-> name, alias |-> alias, type |-> type, required |-> required,
     default |-> default, before |-> before]

Req(name, alias, type) == Fld(name, alias, type, TRUE, {}, "none")

SearchResult ==
    << Fld("title_highlights", "titleHighlights", "list_any", FALSE,
           PyList(<<>>), "none"),
       Fld("snippet_highlights", "snippetHighlights", "list_any", FALSE,
           PyList(<<>>), "none"),
       Req("slug", "slug", "str"),
       Req("title", "title", "str"),
       Req("snippet", "snippet", "str"),
       Req("relevance_score", "relevanceScore", "float"),
       Req("view_count", "viewCount", "int") >>

SearchResponse == << Req("results", "results", "list_SearchResult") >>

Citation ==
    << Req("id", "id", "str"),
       Req("title", "title", "str"),
       Req("description", "description", "str"),
       Req("url", "url", "str"),
       Fld("favicon", "favicon", "str", FALSE, PyStr(""), "none") >>

Page ==
    << Req("slug", "slug", "str"),
       Req("title", "title", "str"),
       Fld("content", "content", "str", FALSE, PyStr(""), "none"),
       Fld("description", "description", "str", FALSE, PyStr(""), "none"),
       Fld("citations", "citations", "list_Citation", FALSE, PyList(<<>>),
           "convert_none_to_list"),
       Fld("images", "images", "list_any", FALSE, PyList(<<>>),
           "convert_none_to_list"),
       Fld("fixed_issues", "fixedIssues", "list_any", FALSE, PyList(<<>>),
           "convert_none_to_list"),
       Fld("metadata", "metadata", "dict_any", FALSE, PyDict(EmptyDict),
           "convert_none_to_dict"),
       Fld("stats", "stats", "dict_any", FALSE, PyDict(EmptyDict),
           "convert_none_to_dict"),
       Fld("linked_pages", "linkedPages", "list_any", FALSE, PyList(<<>>),
           "convert_none_to_list") >>

PageResponse ==
    << Req("page", "page", "Page"),
       Req("found", "found", "bool") >>

ConstantsResponse ==
    << Req("account_url", "accountUrl", "str"),
       Req("grok_com_url", "grokComUrl", "str"),
       Req("app_env", "appEnv", "str") >>

StatsResponse ==
    << Req("total_pages", "totalPages", "str"),
       Req("total_views", "totalViews", "int"),
       Req("avg_views_per_page", "avgViewsPerPage", "float"),
       Req("index_size_bytes", "indexSizeBytes", "str"),
       Req("stats_timestamp", "statsTimestamp", "str") >>

ModelFields ==
    [ SearchResult      |-> SearchResult,
      SearchResponse    |-> SearchResponse,
      Citation          |-> Citation,
      Page              |-> Page,
      PageResponse      |-> PageResponse,
      ConstantsResponse |-> ConstantsResponse,
      StatsResponse     |-> StatsResponse ]

\* Page.convert_none_to_list / Page.convert_none_to_dict (mode="before")
convert_none_to_list(v) == IF v.t # "null" THEN v ELSE JArr(<<>>)

convert_none_to_dict_Keep(v) == v

convert_none_to_dict(v) == IF v.t # "null" THEN v ELSE JObj(EmptyDict)

ApplyBefore(before, v) ==
    CASE before = "convert_none_to_list" -> convert_none_to_list(v)
      [] before = "convert_none_to_dict" -> convert_none_to_dict(v)
      [] OTHER -> v

RECURSIVE ValidateType(_, _)
RECURSIVE model_validate(_, _)

\* pydantic's (lax mode) validation of one JSON value against a declared type
ValidateType(type, v) ==
    CASE type = "str" ->
            IF v.t = "str" THEN Valid(PyStr(v.v)) ELSE Invalid
      [] type = "int" ->
            IF v.t = "num" /\ v.v % 1000 = 0 THEN Valid(PyInt(v.v \div 1000))
            ELSE IF v.t = "str" /\ v.v \in DOMAIN IntOfString
                 THEN Valid(PyInt(IntOfString[v.v]))
            ELSE IF v.t = "bool" THEN Valid(PyInt(IF v.v THEN 1 ELSE 0))
            ELSE Invalid
      [] type = "float" ->
            IF v.t = "num" THEN Valid(PyFloat(v.v))
            ELSE IF v.t = "str" /\ v.v \in DOMAIN IntOfString
                 THEN Valid(PyFloat(1000 * IntOfString[v.v]))
            ELSE IF v.t = "bool" THEN Valid(PyFloat(IF v.v THEN 1000 ELSE 0))
            ELSE Invalid
      [] type = "bool" ->
            IF v.t = "bool" THEN Valid(PyBool(v.v))
            ELSE IF v.t = "num" /\ v.v \in {0, 1000}
                 THEN Valid(PyBool(v.v = 1000))
            ELSE IF v.t = "str" /\ v.v \in {"true", "false"}
                 THEN Valid(PyBool(v.v = "true"))
            ELSE Invalid
      [] type = "list_any" ->
            IF v.t = "arr" THEN Valid(PyList(v.v)) ELSE Invalid
      [] type = "dict_any" ->
            IF v.t = "obj" THEN Valid(PyDict(v.v)) ELSE Invalid
      [] type \in {"list_SearchResult", "list_Citation"} ->
            LET cls == IF type = "list_Citation" THEN "Citation"
                       ELSE "SearchResult"
            IN  IF v.t # "arr" THEN Invalid
                ELSE LET rs == [i \in 1..Len(v.v) |->
                                    model_validate(cls, v.v[i])]
                     IN  IF \A i \in 1..Len(v.v) : rs[i].ok
                         THEN Valid(PyList([i \in 1..Len(v.v) |->
                                                rs[i].value]))
                         ELSE Invalid
      [] OTHER -> model_validate(type, v)

\* BaseModel.model_validate: every declared field is looked up by its alias;
\* a missing field takes its default or fails when required; undeclared
\* keys are ignored; the result is a complete entity or a failure
model_validate(model_class, data) ==
    LET fields == ModelFields[model_class]
        One(i) ==
            LET f == fields[i]
            IN  IF data.t # "obj" THEN Invalid
                ELSE IF f.alias \notin DOMAIN data.v
                     THEN IF f.required THEN Invalid ELSE Valid(f.default)
                ELSE ValidateType(f.type, ApplyBefore(f.before, data.v[f.alias]))
        rs == [i \in 1..Len(fields) |-> One(i)]
        names == { fields[i].name : i \in 1..Len(fields) }
        idx(n) == CHOOSE i \in 1..Len(fields) : fields[i].name = n
    IN  IF data.t = "obj" /\ \A i \in 1..Len(fields) : rs[i].ok
        THEN Valid(PyModel(model_class, [n \in names |-> rs[idx(n)].value]))
        ELSE Invalid

(***************************************************************************)
(* Response bodies the server may send, and httpx's Response.json()         *)
(***************************************************************************)
SearchHit ==
    JObj([ titleHighlights |-> JArr(<<>>), snippetHighlights |-> JArr(<<>>),
           slug |-> JStr("Python"), title |-> JStr("Python"),
           snippet |-> JStr("Python is a language"),
           relevanceScore |-> JNum(3106541), viewCount |-> JStr("90358") ])

\* body text -> the JSON document it contains
JsonDocuments ==
    [ search_ok    |-> JObj([results |-> JArr(<<SearchHit>>)]),
      page_ok      |-> JObj([ page  |-> JObj([ slug |-> JStr("Python"),
                                               title |-> JStr("Python"),
                                               citations |-> JNull,
                                               stats |-> JNull ]),
                              found |-> JBool(TRUE) ]),
      constants_ok |-> JObj([ accountUrl |-> JStr("https://accounts.x.ai"),
                              grokComUrl |-> JStr("https://grok.com"),
                              appEnv     |-> JStr("production") ]),
      stats_ok     |-> JObj([ totalPages |-> JStr("885279"),
                              totalViews |-> JNum(0),
                              avgViewsPerPage |-> JNum(0),
                              indexSizeBytes  |-> JStr("46898447051"),
                              statsTimestamp  |-> JStr("1761732694") ]),
      stats_partial |-> JObj([ totalPages |-> JStr("885279") ]),
      stats_mistyped |-> JObj([ totalPages |-> JStr("885279"),
                                totalViews |-> JStr("many"),
                                avgViewsPerPage |-> JNum(0),
                                indexSizeBytes  |-> JStr("46898447051"),
                                statsTimestamp  |-> JStr("1761732694") ]) ]

\* body texts that are not JSON at all
MalformedBodies == {"not_json"}

Bodies == DOMAIN JsonDocuments \cup MalformedBodies

\* what the server sends back from the endpoint of each operation: the
\* document of that endpoint, a document of another shape, or no JSON
BodiesOf ==
    [ search        |-> {"search_ok", "stats_partial", "not_json"},
      get_page      |-> {"page_ok", "constants_ok", "not_json"},
      get_constants |-> {"constants_ok", "stats_ok", "not_json"},
      get_stats     |-> {"stats_ok", "stats_partial", "stats_mistyped",
                          "not_json"} ]

\* Response.json(): the document, or a decoding exception
ResponseJson(body) ==
    IF body \in DOMAIN JsonDocuments THEN Valid(JsonDocuments[body])
    ELSE Invalid

\* texts of error responses; Response.text may also fail to decode
ErrorTexts == {Some("error"), None}

(***************************************************************************)
(* BaseClient: client.py                                                    *)
(***************************************************************************)
RetryStatuses == {429, 500, 502, 503, 504}

IsRetryableStatus_Not429(status_code) ==
    status_code \in {500, 502, 503, 504}

IsRetryableStatus_All5xx(status_code) ==
    status_code = 429 \/ (500 <= status_code /\ status_code < 600)

\* e.response.status_code in {429, 500, 502, 503, 504}
IsRetryableStatus(status_code) == status_code \in RetryStatuses

IsLastAttempt_Early(a, n) == a >= n - 2

IsLastAttempt_Never(a, n) == FALSE

\* attempt == self.max_retries - 1
IsLastAttempt(a, n) == a = n - 1

IsTransportFailure_NoTimeout(out) == out = "NetworkError"

\* except (httpx.NetworkError, httpx.TimeoutException)
IsTransportFailure(out) == out \in {"NetworkError", "TimeoutException"}

ClientMissing_Never(c) == FALSE

\* if not self._client
ClientMissing(c) == c = None

RECURSIVE Pow2(_)
Pow2(n) == IF n <= 0 THEN 1 ELSE 2 * Pow2(n - 1)

\* random.uniform(a, b): a value between a and b; the two extremes are taken
Uniform(a, b) == {a, b}

_calculate_backoff_Linear(factor, jitter, attempt, u) ==
    LET backoff == factor * (attempt + 1)
    IN  IF jitter THEN backoff + u ELSE backoff

\* BaseClient._calculate_backoff, u being the value random.uniform returns
_calculate_backoff(factor, jitter, attempt, u) ==
    LET backoff == factor * Pow2(attempt)
    IN  IF jitter THEN backoff + u ELSE backoff

\* the values random.uniform(0, 0.1 * backoff) may return for this attempt
JitterDraws(factor, jitter, attempt) ==
    IF jitter THEN Uniform(0, (factor * Pow2(attempt)) \div 10) ELSE {0}

_handle_http_error_NoRateLimit(status_code, error_body) ==
    IF status_code = 400
    THEN APIErrorOf("GrokipediaBadRequestError", status_code, error_body)
    ELSE IF status_code = 404
    THEN APIErrorOf("GrokipediaNotFoundError", status_code, error_body)
    ELSE IF 500 <= status_code /\ status_code < 600
    THEN APIErrorOf("GrokipediaServerError", status_code, error_body)
    ELSE APIErrorOf("GrokipediaAPIError", status_code, error_body)

_handle_http_error_KnownServerCodes(status_code, error_body) ==
    IF status_code = 400
    THEN APIErrorOf("GrokipediaBadRequestError", status_code, error_body)
    ELSE IF status_code = 404
    THEN APIErrorOf("GrokipediaNotFoundError", status_code, error_body)
    ELSE IF status_code = 429
    THEN APIErrorOf("GrokipediaRateLimitError", status_code, error_body)
    ELSE IF status_code \in {500, 501, 502, 503, 504}
    THEN APIErrorOf("GrokipediaServerError", status_code, error_body)
    ELSE APIErrorOf("GrokipediaAPIError", status_code, error_body)

\* BaseClient._handle_http_error: always raises
_handle_http_error(status_code, error_body) ==
    IF status_code = 400
    THEN APIErrorOf("GrokipediaBadRequestError", status_code, error_body)
    ELSE IF status_code = 404
    THEN APIErrorOf("GrokipediaNotFoundError", status_code, error_body)
    ELSE IF status_code = 429
    THEN APIErrorOf("GrokipediaRateLimitError", status_code, error_body)
    ELSE IF 500 <= status_code /\ status_code < 600
    THEN APIErrorOf("GrokipediaServerError", status_code, error_body)
    ELSE APIErrorOf("GrokipediaAPIError", status_code, error_body)

_parse_response_NetworkOnBadJson(body, model_class) ==
    LET data == ResponseJson(body)
    IN  IF ~data.ok
        THEN PlainError("GrokipediaNetworkError", "parse_json")
        ELSE LET r == model_validate(model_class, data.value)
             IN  IF r.ok THEN Returned(r.value)
                 ELSE PlainError("GrokipediaValidationError", "parse_schema")

_parse_response_Partial(body, model_class) ==
    LET data == ResponseJson(body)
    IN  IF ~data.ok
        THEN PlainError("GrokipediaValidationError", "parse_json")
        ELSE LET r == model_validate(model_class, data.value)
             IN  IF r.ok THEN Returned(r.value)
                 ELSE Returned(PyModel(model_class, EmptyDict))

\* BaseClient._parse_response
_parse_response(body, model_class) ==
    LET data == ResponseJson(body)
    IN  IF ~data.ok
        THEN PlainError("GrokipediaValidationError", "parse_json")
        ELSE LET r == model_validate(model_class, data.value)
             IN  IF r.ok THEN Returned(r.value)
                 ELSE PlainError("GrokipediaValidationError", "parse_schema")

\* the four operations and the model class each maps its response to
Operations == {"search", "get_page", "get_constants", "get_stats"}

ModelOf ==
    [ search        |-> "SearchResponse",
      get_page      |-> "PageResponse",
      get_constants |-> "ConstantsResponse",
      get_stats     |-> "StatsResponse" ]

\* what the caller gets for a 2xx response: _request returns the response,
\* each operation maps the body of the response _request returned
Finish(o, status, body) ==
    IF o = "_request"
    THEN Returned([py |-> "Response",
                   v |-> [status_code |-> status, body |-> body]])
    ELSE _parse_response(body, ModelOf[o])

(***************************************************************************)
(* The request an operation sends                                           *)
(***************************************************************************)
DEFAULT_BASE_URL ==
    [origin |-> "https://grokipedia.com", path |-> ""]

DEFAULT_USER_AGENT == "Mozilla/5.0 (Grokipedia Python SDK)"

\* BaseClient.DEFAULT_TIMEOUT, in seconds
DEFAULT_TIMEOUT == 30

\* the defaults of the other parameters of __init__: max_retries = 3,
\* retry_backoff_factor = 0.5 (in units of 0.05 s), retry_backoff_jitter =
\* True
InitDefaults ==
    [max_retries |-> 3, retry_backoff_factor |-> 10,
     retry_backoff_jitter |-> TRUE]

OrDefault_Keep(x, default) ==
    IF x = None THEN default ELSE CHOOSE v \in x : TRUE

\* x or default, for the optional string arguments of the constructor
OrDefault(x, default) ==
    IF x = None \/ x = Some("") THEN default ELSE CHOOSE v \in x : TRUE

\* the empty string given as a URL
EmptyUrl == [origin |-> "", path |-> ""]

\* x or default, for the optional URL argument of the constructor
OrDefaultUrl(x, default) ==
    IF x = None \/ x = Some(EmptyUrl) THEN default ELSE CHOOSE v \in x : TRUE

\* the value of a parameter that has a default, the caller passing x or
\* leaving it out
WithDefault(x, default) ==
    IF x = None THEN default ELSE CHOOSE v \in x : TRUE

\* str(b) for a bool b
StrOfBool(b) == IF b THEN "True" ELSE "False"

\* str.lower(), on the strings that occur here
Lower(s) ==
    CASE s = "True"       -> "true"
      [] s = "False"      -> "false"
      [] s = "User-Agent" -> "user-agent"
      [] s = "Accept"     -> "accept"
      [] OTHER            -> s

\* dict.update: d with the items of e added, e's values replacing d's
DictUpdate(d, e) == e @@ d

\* BaseClient._get_headers
_get_headers(agent) == ("User-Agent" :> agent)

\* BaseClient._build_url: urljoin(base_url, endpoint) for an endpoint that
\* is an absolute path keeps the origin of base_url and takes the path of
\* the endpoint
_build_url(base, endpoint) == [origin |-> base.origin, path |-> endpoint]

\* the arguments of the operations as the caller passes them; an optional
\* argument left out is None
SearchArgs(query, limit, offset) ==
    [query |-> query, limit |-> limit, offset |-> offset]

PageArgs(slug, include_content, validate_links) ==
    [slug |-> slug, include_content |-> include_content,
     validate_links |-> validate_links]

RequestArgs(method, url, headers, params) ==
    [method |-> method, url |-> url, headers |-> headers, params |-> params]

NoArgs == EmptyDict

NoRequest == EmptyDict

\* the calls of the test suite: search("python"), get_page("Python"),
\* get_constants(), get_stats()
PlainArgs ==
    [ search        |-> SearchArgs("python", None, None),
      get_page      |-> PageArgs("Python", None, None),
      get_constants |-> NoArgs,
      get_stats     |-> NoArgs ]

\* Client.search up to its call of _request
search(base, a) ==
    RequestArgs("GET", _build_url(base, "/api/full-text-search"), None,
        Some([ query  |-> PyStr(a.query),
               limit  |-> PyInt(WithDefault(a.limit, 12)),
               offset |-> PyInt(WithDefault(a.offset, 0)) ]))

get_page_Capitalized(base, a) ==
    RequestArgs("GET", _build_url(base, "/api/page"), None,
        Some([ slug |-> PyStr(a.slug),
               includeContent |->
                   PyStr(StrOfBool(WithDefault(a.include_content, TRUE))),
               validateLinks |->
                   PyStr(StrOfBool(WithDefault(a.validate_links, FALSE))) ]))

\* Client.get_page up to its call of _request
get_page(base, a) ==
    RequestArgs("GET", _build_url(base, "/api/page"), None,
        Some([ slug |-> PyStr(a.slug),
               includeContent |->
                   PyStr(Lower(StrOfBool(WithDefault(a.include_content,
                                                     TRUE)))),
               validateLinks |->
                   PyStr(Lower(StrOfBool(WithDefault(a.validate_links,
                                                     FALSE)))) ]))

\* Client.get_constants up to its call of _request
get_constants(base, a) ==
    RequestArgs("GET", _build_url(base, "/api/constants"), None, None)

\* Client.get_stats up to its call of _request
get_stats(base, a) ==
    RequestArgs("GET", _build_url(base, "/api/stats"), None, None)

\* the arguments _request is called with: by one of the operations, or
\* directly (o = "_request", a being the arguments themselves)
ArgumentsOf(o, base, a) ==
    CASE o = "search"        -> search(base, a)
      [] o = "get_page"      -> get_page(base, a)
      [] o = "get_constants" -> get_constants(base, a)
      [] o = "get_stats"     -> get_stats(base, a)
      [] OTHER               -> a

\* _request before its loop: headers = kwargs.pop("headers", {}) and
\* headers.update(self._get_headers()); what every attempt then passes to
\* the connection resource
Prepare(k, agent) ==
    [ method  |-> k.method,
      url     |-> k.url,
      headers |-> DictUpdate(WithDefault(k.headers, EmptyDict),
                             _get_headers(agent)),
      params  |-> k.params ]

(***************************************************************************)
(* What one HTTP attempt can produce                                        *)
(***************************************************************************)
SuccessStatuses == {200, 201}

ErrorStatuses == {304, 400, 403, 404, 429, 500, 501, 502, 503, 504}

is_success_Only200(status) == status = 200

\* httpx: Response.raise_for_status raises HTTPStatusError unless the
\* status is 2xx
is_success(status) == 200 <= status /\ status <= 299

\* a response with a status and a body, or an exception of the transport:
\* httpx.NetworkError, httpx.TimeoutException, or another httpx exception
\* (TooManyRedirects, ProtocolError, ...)
Outcomes ==
    [out : {"response"}, status : SuccessStatuses, body : Bodies]
    \cup [out : {"response"}, status : ErrorStatuses, body : {"error"}]
    \cup [out : {"NetworkError", "TimeoutException", "OtherException"},
          status : {0}, body : {"none"}]

(***************************************************************************)
(* State                                                                    *)
(***************************************************************************)
VARIABLES
    base_url,               \* self.base_url
    user_agent,             \* self.user_agent
    max_retries,            \* self.max_retries
    retry_backoff_factor,   \* self.retry_backoff_factor
    retry_backoff_jitter,   \* self.retry_backoff_jitter
    timeout,                \* self.timeout
    init_args,              \* the arguments the constructor was called with
    client,                 \* self._client: None or Some(resource id)
    openRes,                \* the connection resources created and not closed
    created,                \* number of connection resources created so far
    depth,                  \* number of scopes the caller is inside
    pc,                     \* position of the call in progress
    op,                     \* the operation being called
    args,                   \* the arguments the caller passed to it
    request,                \* method, url, headers, kwargs of _request
    attempt,                \* the loop variable of _request
    log,                    \* events of the current call, oldest first
    result,                 \* how the current call ended
    aclient,                \* AsyncClient: self._client
    aopenRes,               \* AsyncClient: resources created and not closed
    acreated,               \* AsyncClient: number of resources created
    adepth,                 \* AsyncClient: number of scopes entered
    tasks,                  \* AsyncClient: the callers on the event loop
    issued,                 \* per caller, the number of calls it has made
    delivered,              \* per caller, what its calls gave back, in order
    seen,                   \* per caller whose call sleeps, issued as it was
                            \* when the sleep began
    model_class,            \* the model class given a document to validate
    data,                   \* the document
    validated,              \* None, or what model_validate made of it
    response,               \* the error response given to _handle_http_error
    handled                 \* None, or what _handle_http_error raised for it

configVars == <<base_url, user_agent, max_retries, retry_backoff_factor,
                retry_backoff_jitter, timeout, init_args>>
scopeVars  == <<client, openRes, created, depth>>
callVars   == <<pc, op, args, request, attempt, log, result>>
asyncVars  == <<aclient, aopenRes, acreated, adepth, tasks>>
callerVars == <<issued, delivered, seen>>
modelVars  == <<model_class, data, validated>>
errorVars  == <<response, handled>>
vars       == <<configVars, scopeVars, callVars, asyncVars, callerVars,
                modelVars, errorVars>>

AttemptEvent(o, a, c, r) ==
    [e |-> "attempt", attempt |-> a, out |-> o.out, status |-> o.status,
     body |-> o.body, resource |-> c, delay |-> 0, request |-> r]

SleepEvent(a, d) ==
    [e |-> "sleep", attempt |-> a, out |-> "none", status |-> 0,
     body |-> "none", resource |-> None, delay |-> d]

\* the arguments of a constructor call; an argument left out is None
ConstructorArgs(base, agent, tmo, n, factor, jitter) ==
    [base_url |-> base, user_agent |-> agent, timeout |-> tmo,
     max_retries |-> n, retry_backoff_factor |-> factor,
     retry_backoff_jitter |-> jitter]

\* BaseClient.__init__ called with the arguments g
__init__(g) ==
    /\ init_args = g
    /\ base_url = OrDefaultUrl(g.base_url, DEFAULT_BASE_URL)
    /\ user_agent = OrDefault(g.user_agent, DEFAULT_USER_AGENT)
    /\ timeout = WithDefault(g.timeout, DEFAULT_TIMEOUT)
    /\ max_retries = WithDefault(g.max_retries, InitDefaults.max_retries)
    /\ retry_backoff_factor =
           WithDefault(g.retry_backoff_factor,
                       InitDefaults.retry_backoff_factor)
    /\ retry_backoff_jitter =
           WithDefault(g.retry_backoff_jitter,
                       InitDefaults.retry_backoff_jitter)

\* Client.__init__ called with one of the argument records in G
ConstructWith(G) ==
    /\ \E g \in G : __init__(g)
    /\ client = None
    /\ openRes = {}
    /\ created = 0
    /\ depth = 0
    /\ pc = "idle"
    /\ op = "none"
    /\ args = NoArgs
    /\ request = NoRequest
    /\ attempt = 0
    /\ log = <<>>
    /\ result = NoResult

\* Client.__init__, the user_agent argument being one of agents,
\* max_retries at most n, retry_backoff_factor one of factors and
\* retry_backoff_jitter one of jitters, base_url and timeout left out
Construct(agents, n, factors, jitters) ==
    ConstructWith({ ConstructorArgs(None, a, None, Some(k), Some(f), Some(j)) :
                        a \in agents, k \in 0..n, f \in factors,
                        j \in jitters })

\* the callers of the concurrent facade
Tasks == 1..MaxTasks

\* a caller that has no call in progress: the fields are the position and
\* the local variables of its call; resource is the value of self._client
\* that the attempt in flight was issued on
NewTask ==
    [pc |-> "idle", op |-> "none", args |-> NoArgs, request |-> NoRequest,
     attempt |-> 0, resource |-> None, log |-> <<>>, result |-> NoResult]

NothingSeen == [u \in Tasks |-> 0]

\* AsyncClient.__init__ after BaseClient.__init__
AsyncConstruct ==
    /\ aclient = None
    /\ aopenRes = {}
    /\ acreated = 0
    /\ adepth = 0
    /\ tasks = [t \in Tasks |-> NewTask]
    /\ issued = [t \in Tasks |-> 0]
    /\ delivered = [t \in Tasks |-> <<>>]
    /\ seen = [t \in Tasks |-> NothingSeen]

\* no document has been given to a model class
NoValidation ==
    /\ model_class = "none"
    /\ data = JNull
    /\ validated = None

\* an error response: its status code and its text, None when the text
\* cannot be read
ErrorResponse(status_code, text) == [status_code |-> status_code, text |-> text]

\* no error response has been given to _handle_http_error
NoHttpError ==
    /\ response = ErrorResponse(0, None)
    /\ handled = None

\* instances with the default user agent and backoff factor, and jitter
\* switched off
Init ==
    /\ Construct({None}, MaxRetriesBound, DefaultBackoffFactor, {FALSE})
    /\ AsyncConstruct
    /\ NoValidation
    /\ NoHttpError

(***************************************************************************)
(* Scope lifecycle                                                          *)
(***************************************************************************)
\* Client.__enter__: creates a connection resource and stores it
Enter ==
    /\ pc = "idle"
    /\ created < MaxResources
    /\ created' = created + 1
    /\ client' = Some(created + 1)
    /\ openRes' = openRes \cup {created + 1}
    /\ depth' = depth + 1
    /\ UNCHANGED <<configVars, callVars>>

\* Client.__exit__, on normal exit of the scope or with the exception of a
\* call in flight (the arguments are ignored, the exception is not
\* suppressed)
Exit ==
    /\ pc = "idle"
    /\ depth > 0
    /\ openRes' = IF client # None THEN openRes \ client ELSE openRes
    /\ client' = None
    /\ depth' = depth - 1
    /\ UNCHANGED <<configVars, created, callVars>>

(***************************************************************************)
(* Client._request and the operations                                       *)
(***************************************************************************)
\* the raise after the for loop of _request
Fallthrough == PlainError("GrokipediaNetworkError", "after_loop")

\* search / get_page / get_constants / get_stats up to the first attempt:
\* the guard of _request and the entry of its for loop
Call(o, a) ==
    /\ pc = "idle"
    /\ op' = o
    /\ args' = a
    /\ log' = <<>>
    /\ attempt' = 0
    /\ IF ClientMissing(client)
       THEN /\ result' = PlainError("RuntimeError", "guard")
            /\ pc' = "done"
            /\ request' = NoRequest
       ELSE /\ request' = Prepare(ArgumentsOf(o, base_url, a), user_agent)
            /\ IF 0 < max_retries
               THEN /\ result' = NoResult
                    /\ pc' = "request"
               ELSE /\ result' = Fallthrough
                    /\ pc' = "done"
    /\ UNCHANGED <<configVars, scopeVars>>

\* time.sleep(seconds) raises ValueError for a negative duration
SleepFails(seconds) == seconds < 0

\* one iteration of the for loop of _request: the HTTP attempt with outcome
\* o, the except clauses, and on a 2xx response the return and the mapping
\* of the body.  A sleep event is the call of time.sleep, which fails for a
\* negative duration: the ValueError leaves the except clause and the call.  Response.text is read only by _handle_http_error and
\* random.uniform is drawn only by _calculate_backoff.
Attempt(o) ==
    /\ pc = "request"
    /\ LET last    == IsLastAttempt(attempt, max_retries)
           tried   == Append(log, AttemptEvent(o, attempt, client, request))
           Raise(r) == /\ result' = r
                       /\ pc' = "done"
                       /\ log' = tried
           HttpError ==
               \E text \in ErrorTexts :
                   Raise(_handle_http_error(o.status, text))
           Backoff ==
               \E u \in JitterDraws(retry_backoff_factor,
                                    retry_backoff_jitter, attempt) :
                   LET backoff ==
                           _calculate_backoff(retry_backoff_factor,
                               retry_backoff_jitter, attempt, u)
                   IN  /\ log' = Append(tried, SleepEvent(attempt, backoff))
                       /\ IF SleepFails(backoff)
                          THEN /\ result' = PlainError("ValueError", "sleep")
                               /\ pc' = "done"
                          ELSE /\ result' = result
                               /\ pc' = "sleep"
       IN  IF o.out = "response" /\ is_success(o.status)
           THEN Raise(Finish(op, o.status, o.body))
           ELSE IF o.out = "response"
           THEN IF last
                THEN HttpError
                ELSE IF IsRetryableStatus(o.status)
                THEN Backoff
                ELSE HttpError
           ELSE IF IsTransportFailure(o.out)
           THEN IF last
                THEN Raise(PlainError("GrokipediaNetworkError", "network"))
                ELSE Backoff
           ELSE Raise(PlainError("UncaughtHttpxError", "transport"))
    /\ UNCHANGED <<configVars, scopeVars, op, args, request, attempt>>

\* time.sleep returns and the for loop advances to the next iteration
Wake ==
    /\ pc = "sleep"
    /\ attempt' = attempt + 1
    /\ IF attempt + 1 < max_retries
       THEN /\ pc' = "request"
            /\ result' = result
       ELSE /\ pc' = "done"
            /\ result' = Fallthrough
    /\ UNCHANGED <<configVars, scopeVars, op, args, request, log>>

\* the operation hands its return value or its exception to the caller,
\* which goes on with its program; the record of the call is dropped
Deliver ==
    /\ pc = "done"
    /\ pc' = "idle"
    /\ op' = "none"
    /\ args' = NoArgs
    /\ request' = NoRequest
    /\ attempt' = 0
    /\ log' = <<>>
    /\ result' = NoResult
    /\ UNCHANGED <<configVars, scopeVars>>

DoCall == \E o \in Operations : Call(o, PlainArgs[o])

\* the outcomes an attempt of operation o can have
OutcomesOf(o) ==
    { x \in Outcomes :
        (x.out = "response" /\ is_success(x.status)) => x.body \in BodiesOf[o] }

DoAttempt == pc = "request" /\ \E o \in OutcomesOf(op) : Attempt(o)

\* a step of the synchronous facade leaves everything else as it is
SyncStep == UNCHANGED <<asyncVars, callerVars, modelVars, errorVars>>

Next ==
    \/ Enter /\ SyncStep
    \/ Exit /\ SyncStep
    \/ DoCall /\ SyncStep
    \/ DoAttempt /\ SyncStep
    \/ Wake /\ SyncStep
    \/ Deliver /\ SyncStep

Spec == Init /\ [][Next]_vars

(***************************************************************************)
(* The same program with longer retry loops, two backoff factors and both   *)
(* jitter settings, against a server that answers 200, 404 or 503 or fails  *)
(* at transport level: for the backoff delays                               *)
(***************************************************************************)
FewOutcomes ==
    { o \in OutcomesOf(op) :
        \/ o.out \in {"NetworkError", "TimeoutException"}
        \/ o.out = "response" /\ o.status \in {404, 503}
        \/ o.out = "response" /\ o.status = 200 /\ o.body = "stats_ok" }

DoAttemptFew == pc = "request" /\ \E o \in FewOutcomes : Attempt(o)

InitBackoff ==
    /\ Construct({None}, MaxBackoffRetries, BackoffFactors, BOOLEAN)
    /\ AsyncConstruct
    /\ NoValidation
    /\ NoHttpError

NextBackoff ==
    \/ Enter /\ SyncStep
    \/ Exit /\ SyncStep
    \/ DoCall /\ SyncStep
    \/ DoAttemptFew /\ SyncStep
    \/ Wake /\ SyncStep
    \/ Deliver /\ SyncStep

SpecBackoff == InitBackoff /\ [][NextBackoff]_vars

(***************************************************************************)
(* AsyncClient: the scope lifecycle, _request and the operations, for the   *)
(* caller t.  A coroutine runs from one await to the next without           *)
(* interruption; at an await the event loop may run any other caller.       *)
(***************************************************************************)
ascopeVars == <<aclient, aopenRes, acreated, adepth>>

HoldsLoop_TimeSleep(task) == task.pc = "sleep"

\* AsyncClient._async_sleep awaits asyncio.sleep, which suspends the
\* coroutine: a sleeping call does not hold the thread of the event loop
HoldsLoop(task) == FALSE

\* the event loop can run caller t
LoopFree(t) == \A u \in Tasks \ {t} : ~HoldsLoop(tasks[u])

AIsRetryableStatus_No504(status_code) == status_code \in {429, 500, 502, 503}

\* e.response.status_code in {429, 500, 502, 503, 504} of AsyncClient._request
AIsRetryableStatus(status_code) == status_code \in {429, 500, 502, 503, 504}

Completed_Eager(task) == task.pc \in {"done", "sleep"}

\* response = await self._request(...): the coroutine of the operation goes
\* on, to map the response or to propagate the exception, when _request
\* has returned or raised
Completed(task) == task.pc = "done"

\* AsyncClient.__aenter__
AEnter ==
    /\ acreated < MaxResources
    /\ acreated' = acreated + 1
    /\ aclient' = Some(acreated + 1)
    /\ aopenRes' = aopenRes \cup {acreated + 1}
    /\ adepth' = adepth + 1
    /\ UNCHANGED <<configVars, tasks>>

\* AsyncClient.__aexit__
AExit ==
    /\ adepth > 0
    /\ aopenRes' = IF aclient # None THEN aopenRes \ aclient ELSE aopenRes
    /\ aclient' = None
    /\ adepth' = adepth - 1
    /\ UNCHANGED <<configVars, acreated, tasks>>

TaskOf_Shared(t) == tasks[CHOOSE u \in Tasks : \A v \in Tasks : u <= v]

\* the frame of the call of caller t: every call of the coroutine _request
\* has its own attempt, headers and kwargs
TaskOf(t) == tasks[t]

\* caller t awaits an operation: the operation and _request up to the
\* first await of the loop
ACall(t, o, a) ==
    LET task == tasks[t]
        Begin(p, r, q) ==
            tasks' = [tasks EXCEPT ![t] =
                        [task EXCEPT !.pc = p, !.op = o, !.args = a,
                                     !.request = q, !.attempt = 0,
                                     !.resource = IF p = "request" THEN aclient
                                                  ELSE None,
                                     !.log = <<>>, !.result = r]]
    IN  /\ task.pc = "idle"
        /\ LoopFree(t)
        /\ IF aclient = None
           THEN Begin("done", PlainError("RuntimeError", "guard"), NoRequest)
           ELSE LET q == Prepare(ArgumentsOf(o, base_url, a), user_agent)
                IN  IF 0 < max_retries
                    THEN Begin("request", NoResult, q)
                    ELSE Begin("done", Fallthrough, q)
        /\ UNCHANGED <<configVars, ascopeVars>>

\* one iteration of the loop of AsyncClient._request for caller t, from
\* await self._client.request(...) with outcome o to the next await or to
\* the end of the call
AAttempt(t, o) ==
    LET task  == TaskOf(t)
        last  == task.attempt = max_retries - 1
        tried == Append(task.log,
                        AttemptEvent(o, task.attempt, task.resource,
                                     task.request))
        Raise(r) ==
            tasks' = [tasks EXCEPT ![t] =
                        [task EXCEPT !.result = r, !.pc = "done",
                                     !.log = tried]]
        HttpError ==
            \E text \in ErrorTexts :
                Raise(_handle_http_error(o.status, text))
        Backoff ==
            \E u \in JitterDraws(retry_backoff_factor,
                                 retry_backoff_jitter, task.attempt) :
                tasks' = [tasks EXCEPT ![t] =
                    [task EXCEPT
                        !.pc = "sleep",
                        !.log = Append(tried,
                            SleepEvent(task.attempt,
                                _calculate_backoff(retry_backoff_factor,
                                    retry_backoff_jitter, task.attempt, u)))]]
    IN  /\ task.pc = "request"
        /\ LoopFree(t)
        /\ IF o.out = "response" /\ is_success(o.status)
           THEN Raise(Finish(task.op, o.status, o.body))
           ELSE IF o.out = "response"
           THEN IF last
                THEN HttpError
                ELSE IF AIsRetryableStatus(o.status)
                THEN Backoff
                ELSE HttpError
           ELSE IF o.out \in {"NetworkError", "TimeoutException"}
           THEN IF last
                THEN Raise(PlainError("GrokipediaNetworkError", "network"))
                ELSE Backoff
           ELSE Raise(PlainError("UncaughtHttpxError", "transport"))
        /\ UNCHANGED <<configVars, ascopeVars>>

\* asyncio.sleep is over and the loop of _request advances: the next
\* iteration evaluates self._client.request, an AttributeError when
\* __aexit__ has set self._client to None in the meantime, and awaits it
AWake(t) ==
    LET task == TaskOf(t)
    IN  /\ task.pc = "sleep"
        /\ LoopFree(t)
        /\ tasks' = [tasks EXCEPT ![t] =
                IF task.attempt + 1 >= max_retries
                THEN [task EXCEPT !.attempt = @ + 1, !.pc = "done",
                                  !.result = Fallthrough]
                ELSE IF aclient = None
                THEN [task EXCEPT
                        !.attempt = @ + 1, !.pc = "done",
                        !.result = PlainError("AttributeError", "request")]
                ELSE [task EXCEPT !.attempt = @ + 1, !.pc = "request",
                                  !.resource = aclient]]
        /\ UNCHANGED <<configVars, ascopeVars>>

\* the await of caller t is over: it has the return value or the exception
\* of its call and goes on with its program
ADeliver(t) ==
    LET task == tasks[t]
    IN  /\ Completed(task)
        /\ LoopFree(t)
        /\ tasks' = [tasks EXCEPT ![t] =
                [task EXCEPT
                    !.pc = "idle", !.op = "none", !.args = NoArgs,
                    !.request = NoRequest, !.attempt = 0,
                    !.resource = None, !.log = <<>>, !.result = NoResult]]
        /\ UNCHANGED <<configVars, ascopeVars>>

(***************************************************************************)
(* Both facades, constructed alike, given the same scope entries and exits, *)
(* the same calls and, attempt by attempt, the same outcomes                *)
(***************************************************************************)
\* the one caller of the concurrent facade here
Caller == CHOOSE t \in Tasks : \A u \in Tasks : t <= u

\* a step of both facades leaves everything else as it is
FacadesStep == UNCHANGED <<callerVars, modelVars, errorVars>>

NextFacades ==
    \/ Enter /\ AEnter /\ FacadesStep
    \/ Exit /\ AExit /\ FacadesStep
    \/ \E o \in Operations :
           Call(o, PlainArgs[o]) /\ ACall(Caller, o, PlainArgs[o])
               /\ FacadesStep
    \/ /\ pc = "request"
       /\ \E o \in OutcomesOf(op) : Attempt(o) /\ AAttempt(Caller, o)
       /\ FacadesStep
    \/ Wake /\ AWake(Caller) /\ FacadesStep
    \/ Deliver /\ ADeliver(Caller) /\ FacadesStep

SpecFacades == Init /\ [][NextFacades]_vars

(***************************************************************************)
(* The concurrent facade with several callers on one event loop.  Each      *)
(* caller awaits its calls one after the other, inside the scope, which is  *)
(* entered once and exited while no call is in progress; the server answers *)
(* 503 or 200 with a valid body.                                            *)
(***************************************************************************)
\* the operation a caller awaits as its n-th call
Program(n) ==
    CASE n % 3 = 1 -> "search"
      [] n % 3 = 2 -> "get_page"
      [] OTHER     -> "get_stats"

RECURSIVE CallsOf(_)
\* the number of calls the callers in S have made
CallsOf(S) ==
    IF S = {} THEN 0
    ELSE LET t == CHOOSE u \in S : TRUE
         IN  issued[t] + CallsOf(S \ {t})

\* the body each endpoint answers a well-formed request with
ValidBody ==
    [ search        |-> "search_ok",
      get_page      |-> "page_ok",
      get_constants |-> "constants_ok",
      get_stats     |-> "stats_ok" ]

AsyncOutcomes(o) ==
    { [out |-> "response", status |-> 503, body |-> "error"],
      [out |-> "response", status |-> 200, body |-> ValidBody[o]] }

AllIdle == \A t \in Tasks : tasks[t].pc = "idle"

\* what is noted about caller t when it makes a call, when an attempt of
\* its call is over, when its call wakes up and when its await is over
ObserveCall(t) ==
    /\ issued' = [issued EXCEPT ![t] = @ + 1]
    /\ UNCHANGED <<delivered, seen>>

ObserveAttempt(t) ==
    /\ seen' = [seen EXCEPT ![t] = IF tasks'[t].pc = "sleep" THEN issued
                                   ELSE NothingSeen]
    /\ UNCHANGED <<issued, delivered>>

ObserveWake(t) ==
    /\ seen' = [seen EXCEPT ![t] = NothingSeen]
    /\ UNCHANGED <<issued, delivered>>

ObserveDeliver(t) ==
    /\ delivered' = [delivered EXCEPT ![t] =
            Append(@, [call |-> issued[t], kind |-> tasks[t].result.kind])]
    /\ seen' = [seen EXCEPT ![t] = NothingSeen]
    /\ UNCHANGED issued

\* the steps of caller t; the callers are alike, and they are numbered in
\* the order of their first calls
TaskCall(t) ==
    /\ adepth > 0
    /\ CallsOf(Tasks) < MaxCalls
    /\ \A u \in Tasks : u < t => issued[u] > 0
    /\ ACall(t, Program(issued[t] + 1), PlainArgs[Program(issued[t] + 1)])
    /\ ObserveCall(t)

TaskAttempt(t) ==
    /\ tasks[t].pc = "request"
    /\ \E o \in AsyncOutcomes(tasks[t].op) : AAttempt(t, o)
    /\ ObserveAttempt(t)

TaskWake(t) == AWake(t) /\ ObserveWake(t)

TaskDeliver(t) == ADeliver(t) /\ ObserveDeliver(t)

\* a step of the concurrent facade leaves everything else as it is
AsyncStep == UNCHANGED <<scopeVars, callVars, modelVars, errorVars>>

NextAsync ==
    \/ acreated = 0 /\ AEnter /\ UNCHANGED callerVars /\ AsyncStep
    \/ AllIdle /\ AExit /\ UNCHANGED callerVars /\ AsyncStep
    \/ \E t \in Tasks : TaskCall(t) /\ AsyncStep
    \/ \E t \in Tasks : TaskAttempt(t) /\ AsyncStep
    \/ \E t \in Tasks : TaskWake(t) /\ AsyncStep
    \/ \E t \in Tasks : TaskDeliver(t) /\ AsyncStep

InitAsync ==
    /\ Construct({None}, MaxAsyncRetries, DefaultBackoffFactor, {FALSE})
    /\ AsyncConstruct
    /\ NoValidation
    /\ NoHttpError

SpecAsync == InitAsync /\ [][NextAsync]_vars

\* no call has an HTTP attempt in flight
NoneInFlight == \A t \in Tasks : tasks[t].pc # "request"

\* the same callers as tasks that outlive the scope (asyncio.create_task
\* inside 'async with', awaited after it): the scope may exit while calls
\* are suspended in a backoff sleep
NextAsyncTasks ==
    \/ acreated = 0 /\ AEnter /\ UNCHANGED callerVars /\ AsyncStep
    \/ NoneInFlight /\ AExit /\ UNCHANGED callerVars /\ AsyncStep
    \/ \E t \in Tasks : TaskCall(t) /\ AsyncStep
    \/ \E t \in Tasks : TaskAttempt(t) /\ AsyncStep
    \/ \E t \in Tasks : TaskWake(t) /\ AsyncStep
    \/ \E t \in Tasks : TaskDeliver(t) /\ AsyncStep

SpecAsyncTasks == InitAsync /\ [][NextAsyncTasks]_vars

(***************************************************************************)
(* The requests the attempts send: the constructor given a user agent or    *)
(* none, the operations called with and without their optional arguments,   *)
(* and _request called with headers of the caller                           *)
(***************************************************************************)
Agents == {None, Some(""), Some("Custom Agent")}

Slugs == {"Python", "NonExistent"}

OptionalBooleans == {None, Some(TRUE), Some(FALSE)}

\* headers a caller of _request passes: none, an empty dict, a header of its
\* own, and a user agent of its own in two spellings of the header name
CallerHeaders ==
    { None,
      Some(EmptyDict),
      Some("Accept" :> "application/json"),
      Some("User-Agent" :> "caller-agent"),
      Some("user-agent" :> "caller-agent") }

\* the calls made: the operations, and _request itself
RequestCalls ==
    { [op |-> "search", args |-> SearchArgs("python", l, None)] :
          l \in {None, Some(5)} }
    \cup { [op |-> "get_page", args |-> PageArgs(s, i, v)] :
              s \in Slugs, i \in OptionalBooleans, v \in OptionalBooleans }
    \cup { [op |-> o, args |-> NoArgs] : o \in {"get_constants", "get_stats"} }
    \cup { [op |-> "_request",
            args |-> RequestArgs("GET", _build_url(base_url, "/api/stats"),
                                 h, None)] : h \in CallerHeaders }

DoRequestCall == \E k \in RequestCalls : Call(k.op, k.args)

\* a server that answers 200 with a document of the operation, 404 or 503
RequestOutcomes(o) ==
    { [out |-> "response", status |-> 503, body |-> "error"],
      [out |-> "response", status |-> 404, body |-> "error"],
      [out |-> "response", status |-> 200,
       body |-> IF o \in Operations THEN ValidBody[o] ELSE "stats_ok"] }

DoRequestAttempt == pc = "request" /\ \E o \in RequestOutcomes(op) : Attempt(o)

\* httpx: header names are matched without regard to case, and a dict with
\* two spellings of a name gives two header lines; the values the request
\* carries for the header name
Carried(headers, name) ==
    { headers[k] : k \in { j \in DOMAIN headers : Lower(j) = Lower(name) } }

InitRequests ==
    /\ Construct(Agents, MaxRetriesBound, DefaultBackoffFactor, {FALSE})
    /\ AsyncConstruct
    /\ NoValidation
    /\ NoHttpError

NextRequests ==
    \/ created = 0 /\ Enter /\ SyncStep
    \/ Exit /\ SyncStep
    \/ DoRequestCall /\ SyncStep
    \/ DoRequestAttempt /\ SyncStep
    \/ Wake /\ SyncStep
    \/ Deliver /\ SyncStep

SpecRequests == InitRequests /\ [][NextRequests]_vars

(***************************************************************************)
(* Instances constructed with arguments of every kind - each one given or   *)
(* left out, the strings also empty, max_retries also zero and negative,    *)
(* retry_backoff_factor also negative - used for scope entries, calls and   *)
(* scope exits against a server that answers 200, 404 or 503 or fails at    *)
(* transport level                                                          *)
(***************************************************************************)
CustomUrl == [origin |-> "https://custom.example.com", path |-> ""]

ConfigArgs ==
    { ConstructorArgs(b, a, t, n, f, j) :
        b \in {None, Some(EmptyUrl), Some(CustomUrl)},
        a \in Agents,
        t \in {None, Some(60)},
        n \in {None} \cup { Some(k) : k \in (0 - 1)..MaxConfigRetries },
        f \in {None, Some(20), Some(0 - 10)},
        j \in {None, Some(FALSE)} }

InitConfig ==
    /\ ConstructWith(ConfigArgs)
    /\ AsyncConstruct
    /\ NoValidation
    /\ NoHttpError

DoConfigCall == \E o \in {"search", "get_stats"} : Call(o, PlainArgs[o])

ConfigOutcomes(o) ==
    { [out |-> "response", status |-> 503, body |-> "error"],
      [out |-> "response", status |-> 404, body |-> "error"],
      [out |-> "response", status |-> 200, body |-> ValidBody[o]],
      [out |-> "NetworkError", status |-> 0, body |-> "none"] }

DoConfigAttempt == pc = "request" /\ \E o \in ConfigOutcomes(op) : Attempt(o)

NextConfig ==
    \/ created = 0 /\ Enter /\ SyncStep
    \/ Exit /\ SyncStep
    \/ DoConfigCall /\ SyncStep
    \/ DoConfigAttempt /\ SyncStep
    \/ Wake /\ SyncStep
    \/ Deliver /\ SyncStep

SpecConfig == InitConfig /\ [][NextConfig]_vars

(***************************************************************************)
(* The model classes on their own: SearchResult and Page documents given to *)
(* model_validate                                                           *)
(***************************************************************************)
\* values of viewCount: the strings of the fixtures and of the tests, a
\* string that is not a number, and a number
ViewCounts ==
    { JStr("12345"), JStr("90358"), JStr("1.2k"), JNum(12345000) }

SearchResultDocuments ==
    { JObj([ titleHighlights |-> JArr(<<>>),
             snippetHighlights |-> JArr(<<>>),
             slug |-> JStr("Python"), title |-> JStr("Python"),
             snippet |-> JStr("Python is a programming language"),
             relevanceScore |-> JNum(100500), viewCount |-> v ]) :
        v \in ViewCounts }

\* a value of the declared shape for each list- and map-typed field of Page
ContainerSamples ==
    [ citations   |-> JArr(<< JObj([ id |-> JStr("1"),
                                     title |-> JStr("Python.org"),
                                     description |-> JStr("Home page"),
                                     url |-> JStr("https://python.org") ]) >>),
      images      |-> JArr(<< JStr("logo.png") >>),
      fixedIssues |-> JArr(<< JStr("typo") >>),
      linkedPages |-> JArr(<< JStr("Guido_van_Rossum") >>),
      metadata    |-> JObj([ lang |-> JStr("en") ]),
      stats       |-> JObj([ views |-> JNum(1000) ]) ]

\* the scalar fields of a page: the required ones alone, or all of them
PageScalars ==
    { [ slug |-> JStr("Test"), title |-> JStr("Test Page") ],
      [ slug |-> JStr("Python"), title |-> JStr("Python"),
        content |-> JStr("Python is a language"),
        description |-> JStr("A language") ] }

\* a page that has the fields in given, those in nulls being null
PageDocument(scalars, given, nulls) ==
    JObj([k \in given |-> IF k \in nulls THEN JNull ELSE ContainerSamples[k]]
             @@ scalars)

PageDocuments ==
    UNION { { PageDocument(scalars, given, nulls) :
                  scalars \in PageScalars, nulls \in SUBSET given } :
            given \in SUBSET DOMAIN ContainerSamples }

DocumentsOf ==
    [ SearchResult |-> SearchResultDocuments,
      Page         |-> PageDocuments ]

InitModels ==
    /\ Construct({None}, MaxRetriesBound, DefaultBackoffFactor, {FALSE})
    /\ AsyncConstruct
    /\ model_class \in DOMAIN DocumentsOf
    /\ data \in DocumentsOf[model_class]
    /\ validated = None
    /\ NoHttpError

\* model_class.model_validate(data)
Validate ==
    /\ validated = None
    /\ validated' = Some(model_validate(model_class, data))
    /\ UNCHANGED <<configVars, scopeVars, callVars, asyncVars, callerVars,
                   model_class, data, errorVars>>

NextModels == Validate

SpecModels == InitModels /\ [][NextModels]_vars

(***************************************************************************)
(* Calls of search and get_stats where every HTTP attempt that was issued   *)
(* completes and every sleep that was begun ends: self._client.request      *)
(* returns or raises within the timeout, and time.sleep returns.  The       *)
(* outcomes cover every way an iteration of the loop can go.                *)
(***************************************************************************)
TerminationOutcomes(o) ==
    { [out |-> "response", status |-> 200, body |-> ValidBody[o]],
      [out |-> "response", status |-> 200, body |-> "not_json"],
      [out |-> "response", status |-> 404, body |-> "error"],
      [out |-> "response", status |-> 429, body |-> "error"],
      [out |-> "response", status |-> 503, body |-> "error"],
      [out |-> "NetworkError", status |-> 0, body |-> "none"],
      [out |-> "TimeoutException", status |-> 0, body |-> "none"],
      [out |-> "OtherException", status |-> 0, body |-> "none"] }

DoTerminationCall == \E o \in {"search", "get_stats"} : Call(o, PlainArgs[o])

DoTerminationAttempt ==
    pc = "request" /\ \E o \in TerminationOutcomes(op) : Attempt(o)

NextTermination ==
    \/ created = 0 /\ Enter /\ SyncStep
    \/ Exit /\ SyncStep
    \/ DoTerminationCall /\ SyncStep
    \/ DoTerminationAttempt /\ SyncStep
    \/ Wake /\ SyncStep
    \/ Deliver /\ SyncStep

SpecTermination ==
    /\ Init
    /\ [][NextTermination]_vars
    /\ WF_vars(DoTerminationAttempt /\ SyncStep)
    /\ WF_vars(Wake /\ SyncStep)

(***************************************************************************)
(* _handle_http_error on its own: given a response with any status code     *)
(* that raise_for_status rejects, and a text that can or cannot be read     *)
(***************************************************************************)
\* the status codes that are not 2xx
NonSuccessStatuses == { c \in 100..599 : ~is_success(c) }

ResponseTexts == {Some("error"), Some(""), None}

InitErrors ==
    /\ Construct({None}, MaxRetriesBound, DefaultBackoffFactor, {FALSE})
    /\ AsyncConstruct
    /\ NoValidation
    /\ \E c \in NonSuccessStatuses, text \in ResponseTexts :
           response = ErrorResponse(c, text)
    /\ handled = None

\* self._handle_http_error(response)
HandleHttpError ==
    /\ handled = None
    /\ handled' = Some(_handle_http_error(response.status_code, response.text))
    /\ UNCHANGED <<configVars, scopeVars, callVars, asyncVars, callerVars,
                   modelVars, response>>

NextErrors == HandleHttpError

SpecErrors == InitErrors /\ [][NextErrors]_vars

(***************************************************************************)
(* Reading the record of the current call                                   *)
(***************************************************************************)
IsAttempt(ev) == ev.e = "attempt"
IsSleep(ev)   == ev.e = "sleep"

AttemptsMade == SelectSeq(log, IsAttempt)
SleepsDone   == SelectSeq(log, IsSleep)

\* the call got past the guard of _request: it was made with a resource held
PassedGuard == pc # "idle" /\ result.site # "guard"

Ended == pc = "done"

Raised == Ended /\ result.kind \notin {"return", "pending"}

IsStatusAttempt(ev, s) ==
    ev.e = "attempt" /\ ev.out = "response" /\ ev.status = s

\* the attempt failed in a way the executor retries
IsRetryableFailure(ev) ==
    /\ ev.e = "attempt"
    /\ \/ ev.out \in {"NetworkError", "TimeoutException"}
       \/ ev.out = "response" /\ ev.status \in {429, 500, 502, 503, 504}

\* the sleep after the attempt with index a is the last event so far and the
\* call is still sleeping, with an attempt left in the loop, or has woken up
\* and is about to issue attempt a + 1
NextAttemptPending(a) ==
    \/ pc = "sleep" /\ attempt = a /\ a + 1 < max_retries
    \/ pc = "request" /\ attempt = a + 1 /\ attempt < max_retries

(***************************************************************************)
(* Claims                                                                   *)
(***************************************************************************)

\* C1: a call made inside an active scope whose attempts all return the same
\* status s in {400, 404, 429, 500} raises the error kind that matches s
\* (400 BadRequest, 404 NotFound, 429 RateLimit, 500 ServerError) and the
\* error carries status_code = s.
C1_MatchingErrorKind ==
    \A s \in {400, 404, 429, 500} :
        ( /\ Ended
          /\ PassedGuard
          /\ Len(AttemptsMade) >= 1
          /\ \A i \in 1..Len(AttemptsMade) :
                 IsStatusAttempt(AttemptsMade[i], s) )
        => /\ result.kind = ( CASE s = 400 -> "GrokipediaBadRequestError"
                                [] s = 404 -> "GrokipediaNotFoundError"
                                [] s = 429 -> "GrokipediaRateLimitError"
                                [] s = 500 -> "GrokipediaServerError" )
           /\ result.status_code = Some(s)

\* a 429 on every one of three attempts has ended in RateLimit
C1_Witness ==
    /\ Ended
    /\ max_retries = 3
    /\ Len(AttemptsMade) = 3
    /\ \A i \in 1..3 : IsStatusAttempt(AttemptsMade[i], 429)
    /\ result.kind = "GrokipediaRateLimitError"

\* the observable fields a valid body of each operation must map to
C2_MappedFrom(o, body, entity) ==
    CASE o = "search" ->
            /\ body = "search_ok"
            /\ entity.py = "SearchResponse"
            /\ Len(entity.v.results.v) = 1
            /\ entity.v.results.v[1].v.slug = PyStr("Python")
            /\ entity.v.results.v[1].v.relevance_score = PyFloat(3106541)
      [] o = "get_page" ->
            /\ body = "page_ok"
            /\ entity.py = "PageResponse"
            /\ entity.v.found = PyBool(TRUE)
            /\ entity.v.page.v.slug = PyStr("Python")
            /\ entity.v.page.v.content = PyStr("")
      [] o = "get_constants" ->
            /\ body = "constants_ok"
            /\ entity.py = "ConstantsResponse"
            /\ entity.v.app_env = PyStr("production")
            /\ entity.v.account_url = PyStr("https://accounts.x.ai")
      [] o = "get_stats" ->
            /\ body = "stats_ok"
            /\ entity.py = "StatsResponse"
            /\ entity.v.total_pages = PyStr("885279")
            /\ entity.v.total_views = PyInt(0)
            /\ entity.v.index_size_bytes = PyStr("46898447051")

C2_ValidBody ==
    [ search |-> "search_ok", get_page |-> "page_ok",
      get_constants |-> "constants_ok", get_stats |-> "stats_ok" ]

\* event i of the log is the attempt with zero-based index k >= 1, it
\* returned 2xx with a valid body, and all k attempts before it returned the
\* same retryable status
C2_SuccessAfterRetries(i) ==
    /\ IsAttempt(log[i])
    /\ log[i].out = "response"
    /\ log[i].status \in 200..299
    /\ log[i].body = C2_ValidBody[op]
    /\ log[i].attempt >= 1
    /\ \E s \in {429, 500, 502, 503, 504} :
           \A j \in 1..(i - 1) :
               IsAttempt(log[j]) => IsStatusAttempt(log[j], s)

\* C2: when the first k attempts (1 <= k <= max_retries - 1) return one
\* retryable status and attempt k+1 returns 2xx with a valid body, the call
\* ends there, after exactly k+1 attempts, by returning the entity mapped
\* from that body; no error is raised.
C2_RetryThenSuccessReturns ==
    \A i \in 1..Len(log) :
        C2_SuccessAfterRetries(i)
        => /\ i = Len(log)
           /\ Ended
           /\ Len(AttemptsMade) = log[i].attempt + 1
           /\ Len(AttemptsMade) <= max_retries
           /\ result.kind = "return"
           /\ \E entity \in result.value :
                  C2_MappedFrom(op, log[i].body, entity)

\* two 500s, then a 201 with the search body, with max_retries = 3
C2_Witness ==
    /\ Ended
    /\ max_retries = 3
    /\ op = "search"
    /\ Len(AttemptsMade) = 3
    /\ IsStatusAttempt(AttemptsMade[1], 500)
    /\ IsStatusAttempt(AttemptsMade[2], 500)
    /\ IsStatusAttempt(AttemptsMade[3], 201)
    /\ AttemptsMade[3].body = "search_ok"
    /\ result.kind = "return"

\* C3: a call never issues more than max_retries attempts, and a call whose
\* every attempt fails in a retryable way (429, 500, 502, 503, 504, network
\* failure or timeout, in any mix) has issued exactly max_retries attempts
\* when it raises.
C3_ExactlyMaxRetriesAttempts ==
    /\ Len(AttemptsMade) <= max_retries
    /\ ( /\ Ended
         /\ PassedGuard
         /\ \A i \in 1..Len(AttemptsMade) : IsRetryableFailure(AttemptsMade[i]) )
       => /\ Len(AttemptsMade) = max_retries
          /\ Raised

\* a timeout, a 503 and a 429 used up max_retries = 3
C3_Witness ==
    /\ Raised
    /\ max_retries = 3
    /\ Len(AttemptsMade) = 3
    /\ AttemptsMade[1].out = "TimeoutException"
    /\ IsStatusAttempt(AttemptsMade[2], 503)
    /\ IsStatusAttempt(AttemptsMade[3], 429)

\* C4: a non-2xx status outside {429, 500, 502, 503, 504} is never retried:
\* the attempt that returns it, final or not, is the last event of the call
\* (no sleep, no further attempt) and the call has raised the API error
\* carrying that status.
C4_TerminalStatusNotRetried ==
    \A i \in 1..Len(log) :
        ( /\ IsAttempt(log[i])
          /\ log[i].out = "response"
          /\ log[i].status \notin 200..299
          /\ log[i].status \notin {429, 500, 502, 503, 504} )
        => /\ i = Len(log)
           /\ Raised
           /\ IsInstance(result.kind, "GrokipediaAPIError")
           /\ result.status_code = Some(log[i].status)

\* a 501 on the second of three allowed attempts, after a retried 502
C4_Witness ==
    /\ Raised
    /\ max_retries = 3
    /\ Len(log) = 3
    /\ IsStatusAttempt(log[1], 502)
    /\ IsSleep(log[2])
    /\ IsStatusAttempt(log[3], 501)
    /\ log[3].attempt = 1

\* the delay is what backoff(a) allows under the configuration: the base
\* delay factor * 2^a, plus at most a tenth of it when jitter is enabled
C5_IsBackoffOf(d, a) ==
    LET base == retry_backoff_factor * (2 ^ a)
    IN  IF retry_backoff_jitter
        THEN base <= d /\ 10 * d <= 11 * base
        ELSE d = base

\* C5: a network failure and a timeout are handled alike.  On a non-final
\* attempt the call sleeps backoff(attempt) and goes on to the next attempt;
\* on the final attempt (attempt = max_retries - 1) it raises NetworkError,
\* which has no status code and is not an APIError.
C5_TransportFailureRetriedThenNetworkError ==
    \A i \in 1..Len(log) :
        ( IsAttempt(log[i]) /\ log[i].out \in {"NetworkError", "TimeoutException"} )
        => IF log[i].attempt = max_retries - 1
           THEN /\ i = Len(log)
                /\ Raised
                /\ result.kind = "GrokipediaNetworkError"
                /\ result.status_code = None
                /\ ~IsInstance(result.kind, "GrokipediaAPIError")
           ELSE /\ i < Len(log)
                /\ IsSleep(log[i + 1])
                /\ C5_IsBackoffOf(log[i + 1].delay, log[i].attempt)
                /\ IF i + 1 = Len(log)
                   THEN NextAttemptPending(log[i].attempt)
                   ELSE /\ IsAttempt(log[i + 2])
                        /\ log[i + 2].attempt = log[i].attempt + 1

\* with jitter enabled, a network failure was retried after a jittered
\* sleep and the timeout on the final attempt raised
C5_Witness ==
    /\ Raised
    /\ retry_backoff_jitter
    /\ max_retries = 2
    /\ Len(log) = 3
    /\ log[1].out = "NetworkError"
    /\ IsSleep(log[2])
    /\ log[2].delay = retry_backoff_factor + retry_backoff_factor \div 10
    /\ log[3].out = "TimeoutException"
    /\ result.kind = "GrokipediaNetworkError"

\* C6: backoff sleeps occur only between attempts.  Every sleep directly
\* follows a failed attempt and is directly followed by another attempt (or
\* is still in progress with an attempt left to make); nothing is slept
\* after the attempt that ends the call, so a call that ended after a >= 1
\* attempts slept exactly a - 1 times.
C6_SleepsOnlyBetweenAttempts ==
    /\ \A i \in 1..Len(log) :
           IsSleep(log[i])
           => /\ i > 1
              /\ IsAttempt(log[i - 1])
              /\ ~(log[i - 1].out = "response" /\ log[i - 1].status \in 200..299)
              /\ IF i = Len(log)
                 THEN NextAttemptPending(log[i].attempt)
                 ELSE IsAttempt(log[i + 1])
    /\ pc = "sleep" => Len(log) >= 1 /\ IsSleep(log[Len(log)])
    /\ (Ended /\ Len(AttemptsMade) >= 1)
       => /\ Len(SleepsDone) = Len(AttemptsMade) - 1
          /\ IsAttempt(log[Len(log)])

\* a call that raised on its third attempt slept twice
C6_Witness ==
    /\ Raised
    /\ Len(AttemptsMade) = 3
    /\ Len(SleepsDone) = 2
    /\ IsStatusAttempt(log[5], 504)

\* C7: with jitter disabled, the first sleep of a call lasts
\* retry_backoff_factor, each later sleep lasts exactly twice the one before
\* it, and the sleep after the attempt with zero-based index k is the
\* (k+1)-th sleep: its delay is retry_backoff_factor * 2^k.
C7_ExactDoublingWithoutJitter ==
    ~retry_backoff_jitter
    => \A j \in 1..Len(SleepsDone) :
           /\ SleepsDone[j].attempt = j - 1
           /\ SleepsDone[j].delay = retry_backoff_factor * (2 ^ (j - 1))
           /\ j = 1 => SleepsDone[j].delay = retry_backoff_factor
           /\ j > 1 => SleepsDone[j].delay = 2 * SleepsDone[j - 1].delay

\* without jitter and with factor 0.5 s, the sleeps of one call lasted
\* 0.5 s, 1 s and 2 s
C7_Witness ==
    /\ ~retry_backoff_jitter
    /\ retry_backoff_factor = 10
    /\ Len(SleepsDone) = 3
    /\ SleepsDone[1].delay = 10
    /\ SleepsDone[2].delay = 20
    /\ SleepsDone[3].delay = 40

\* C8: a call made while the instance is outside every scope (never entered,
\* or already exited) has failed at once with RuntimeError, which is not a
\* kind of the taxonomy, without any HTTP attempt or backoff sleep, whatever
\* the configuration.
C8_UsageErrorOutsideScope ==
    (depth = 0 /\ pc # "idle")
    => /\ Ended
       /\ result.kind = "RuntimeError"
       /\ result.kind \notin TaxonomyKinds
       /\ ~IsInstance(result.kind, "GrokipediaNetworkError")
       /\ ~IsInstance(result.kind, "GrokipediaError")
       /\ log = <<>>
       /\ op \in {"search", "get_page", "get_constants", "get_stats"}

\* get_stats after the scope was exited, on an instance with max_retries = 0
C8_Witness ==
    /\ depth = 0
    /\ created >= 1
    /\ max_retries = 0
    /\ Ended
    /\ op = "get_stats"
    /\ result.kind = "RuntimeError"

\* C9: the connection resource is never leaked: whenever the instance is
\* outside all scopes, every resource an entry acquired has been closed.
C9_NoResourceLeak ==
    depth = 0 => openRes = {}

\* C10: every call made inside an active scope that has ended either
\* returned a validated entity or raised one of the taxonomy kinds (an
\* APIError variant, NetworkError, ValidationError).
C10_OnlyTaxonomyErrors ==
    (Ended /\ depth > 0)
    => \/ result.kind = "return" /\ result.value # None
       \/ result.kind \in { "GrokipediaAPIError", "GrokipediaBadRequestError",
                            "GrokipediaNotFoundError",
                            "GrokipediaRateLimitError", "GrokipediaServerError",
                            "GrokipediaNetworkError",
                            "GrokipediaValidationError" }

\* event i of the log is an attempt that returned a 2xx status
C11_IsSuccessAttempt(i) ==
    /\ IsAttempt(log[i])
    /\ log[i].out = "response"
    /\ log[i].status \in 200..299

\* C11: schema and JSON failures are never retried.  An attempt that
\* returned 2xx is the last event of its call, whatever the body: no further
\* attempt and no sleep follows, and the call has ended with the attempt
\* count unchanged; when the body is not JSON or is not a document of the
\* operation's schema the call has raised ValidationError there.
C11_SuccessStatusEndsCall ==
    \A i \in 1..Len(log) :
        C11_IsSuccessAttempt(i)
        => /\ i = Len(log)
           /\ Ended
           /\ attempt = log[i].attempt
           /\ Len(AttemptsMade) = log[i].attempt + 1
           /\ result.kind \in {"return", "GrokipediaValidationError"}
           /\ log[i].body # C2_ValidBody[op]
              => /\ result.kind = "GrokipediaValidationError"
                 /\ result.status_code = None
                 /\ result.value = None

\* after a retried 503, the second attempt returned 200 with a body that is
\* not JSON: ValidationError after two attempts and one sleep
C11_Witness ==
    /\ Raised
    /\ max_retries = 3
    /\ Len(log) = 3
    /\ IsStatusAttempt(log[1], 503)
    /\ IsSleep(log[2])
    /\ IsStatusAttempt(log[3], 200)
    /\ log[3].body = "not_json"
    /\ attempt = 1
    /\ result.kind = "GrokipediaValidationError"

\* every declared field of the entity's class, and of the entities nested
\* in it, has a value
RECURSIVE C12_FullyPopulated(_)
C12_FullyPopulated(entity) ==
    /\ entity.py \in DOMAIN ModelFields
    /\ LET fields == ModelFields[entity.py]
       IN  /\ DOMAIN entity.v = { fields[k].name : k \in 1..Len(fields) }
           /\ \A k \in 1..Len(fields) :
                  LET x == entity.v[fields[k].name]
                  IN  IF fields[k].type \in DOMAIN ModelFields
                      THEN C12_FullyPopulated(x)
                      ELSE IF fields[k].type \in {"list_SearchResult",
                                                  "list_Citation"}
                      THEN \A j \in 1..Len(x.v) : C12_FullyPopulated(x.v[j])
                      ELSE x.py \in {"str", "int", "float", "bool", "list",
                                     "dict"}

\* C12: mapping a 2xx body has exactly two outcomes: an entity of the
\* operation's class with every field populated, or ValidationError.  A
\* body that is not JSON, a body that lacks a required field and a body
\* with a wrongly typed field all raise ValidationError, the same kind, and
\* then no entity, partial or not, is returned.
C12_EntityOrValidationError ==
    ( Ended /\ Len(log) >= 1 /\ C11_IsSuccessAttempt(Len(log)) )
    => LET body == log[Len(log)].body
       IN  /\ \/ /\ result.kind = "return"
                 /\ \E entity \in result.value :
                        /\ entity.py = ModelOf[op]
                        /\ C12_FullyPopulated(entity)
              \/ /\ result.kind = "GrokipediaValidationError"
                 /\ result.value = None
           /\ body \in {"not_json", "stats_partial", "stats_mistyped"}
              => result.kind = "GrokipediaValidationError"
           /\ body = C2_ValidBody[op] => result.kind = "return"

\* get_stats received a document whose totalViews is not a number
C12_Witness ==
    /\ Raised
    /\ op = "get_stats"
    /\ Len(log) = 1
    /\ IsStatusAttempt(log[1], 200)
    /\ log[1].body = "stats_mistyped"
    /\ result.kind = "GrokipediaValidationError"
    /\ result.value = None

\* the attempt indices after which a call slept, in order
C13_BackoffIndices(events) ==
    LET sleeps == SelectSeq(events, IsSleep)
    IN  [i \in 1..Len(sleeps) |-> sleeps[i].attempt]

C14_SequentialCallsInOrder ==
    \A t \in Tasks :
        /\ \A k \in 1..Len(delivered[t]) :
               /\ delivered[t][k].call = k
               /\ delivered[t][k].kind # "pending"
               /\ delivered[t][k].kind \in {"return", "RuntimeError"}
                      \cup TaxonomyKinds
        /\ tasks[t].pc = "idle" => issued[t] = Len(delivered[t])
        /\ tasks[t].pc # "idle" => issued[t] = Len(delivered[t]) + 1
        /\ tasks[t].log # <<>> => Len(delivered[t]) = issued[t] - 1

\* a caller whose first call, search, has returned and been delivered has
\* made the one attempt of its second call, get_page, which returned too
C14_Witness ==
    \E t \in Tasks :
        /\ Len(delivered[t]) = 1
        /\ delivered[t][1] = [call |-> 1, kind |-> "return"]
        /\ issued[t] = 2
        /\ tasks[t].op = "get_page"
        /\ tasks[t].pc = "done"
        /\ Len(tasks[t].log) = 1
        /\ tasks[t].result.kind = "return"

\* the event loop can run the next step of caller u, whose call is pending:
\* the next attempt, whatever its outcome, the end of its own sleep, or the
\* delivery of its result
C15_CanProceed(u) ==
    CASE tasks[u].pc = "request" ->
            \A o \in AsyncOutcomes(tasks[u].op) : ENABLED AAttempt(u, o)
      [] tasks[u].pc = "sleep" -> ENABLED AWake(u)
      [] OTHER -> ENABLED ADeliver(u)

\* C15: a backoff wait on the concurrent facade does not block other work.
\* While the call of one caller sleeps, every other caller with a call
\* pending can take its next step - issue an attempt, end its own sleep,
\* get its result - and an idle caller can start a call.
C15_SleepDoesNotBlockOthers ==
    \A u \in Tasks :
        (\E t \in Tasks \ {u} : tasks[t].pc = "sleep")
        => /\ tasks[u].pc # "idle" => C15_CanProceed(u)
           /\ (tasks[u].pc = "idle" /\ adepth > 0 /\ CallsOf(Tasks) < MaxCalls)
              => ENABLED ACall(u, "get_stats", NoArgs)

\* the call of one caller is still in its first sleep, and another caller
\* has since made a call, which returned and was delivered, and is now
\* in the sleep of its next call
C15_Witness ==
    \E t \in Tasks : \E u \in Tasks \ {t} :
        /\ tasks[t].pc = "sleep"
        /\ Len(tasks[t].log) = 2
        /\ Len(delivered[u]) > seen[t][u]
        /\ delivered[u][seen[t][u] + 1].kind = "return"
        /\ tasks[u].pc = "sleep"
        /\ issued[u] = seen[t][u] + 2

\* C16: one connection resource per instance and scope.  At most one
\* resource is open at any time; inside a scope the instance holds the one
\* open resource, acquired by the entry, and outside every scope it holds
\* none; every attempt of a call uses the resource the instance holds.
C16_OneResourcePerScope ==
    /\ Cardinality(openRes) <= 1
    /\ depth > 0 => (client # None /\ openRes = client)
    /\ depth = 0 => client = None
    /\ \A i \in 1..Len(log) :
           IsAttempt(log[i])
           => (log[i].resource # None /\ log[i].resource = client)

\* C17: SearchResult.viewCount is a string.  Validating a search result
\* whose viewCount is the JSON string v gives an entity whose view_count is
\* that same string v.
C17_ViewCountStaysString ==
    ( model_class = "SearchResult" /\ data.v.viewCount.t = "str" )
    => \A r \in validated :
           /\ r.ok
           /\ r.value.v.view_count.py = "str"
           /\ r.value.v.view_count.v = data.v.viewCount.v

\* the attribute of Page for each list- and map-typed field, by wire name,
\* and the empty container of its type
C18_Attribute ==
    [ citations |-> "citations", images |-> "images",
      fixedIssues |-> "fixed_issues", linkedPages |-> "linked_pages",
      metadata |-> "metadata", stats |-> "stats" ]

C18_Empty ==
    [ citations |-> PyList(<<>>), images |-> PyList(<<>>),
      fixedIssues |-> PyList(<<>>), linkedPages |-> PyList(<<>>),
      metadata |-> PyDict(EmptyDict), stats |-> PyDict(EmptyDict) ]

\* the document without its fields that are null
C18_WithoutNulls(doc) ==
    JObj([k \in { j \in DOMAIN doc.v : doc.v[j].t # "null" } |-> doc.v[k]])

\* C18: for each of citations, images, fixedIssues, linkedPages (lists) and
\* metadata, stats (maps) of Page, a JSON null is accepted like an absent
\* field and gives the empty list or map: the page validates whichever of
\* the six are null or absent, it is the page the document without the
\* nulls gives, and the scalar fields and the containers that have a value
\* are what the document says.
C18_NullIsEmptyContainer ==
    model_class = "Page"
    => \A r \in validated :
        /\ r.ok
        /\ \A k \in DOMAIN C18_Attribute :
               LET x == r.value.v[C18_Attribute[k]]
               IN  IF k \notin DOMAIN data.v \/ data.v[k].t = "null"
                   THEN x = C18_Empty[k]
                   ELSE /\ x.py = C18_Empty[k].py
                        /\ k \notin {"citations", "metadata", "stats"}
                               => x.v = data.v[k].v
                        /\ k \in {"metadata", "stats"}
                               => DOMAIN x.v = DOMAIN data.v[k].v
                        /\ k = "citations"
                               => x.v[1].v.url = PyStr("https://python.org")
        /\ r = model_validate("Page", C18_WithoutNulls(data))
        /\ r.value.v.slug = PyStr(data.v.slug.v)
        /\ r.value.v.title = PyStr(data.v.title.v)
        /\ r.value.v.content =
               IF "content" \in DOMAIN data.v THEN PyStr(data.v.content.v)
               ELSE PyStr("")
        /\ r.value.v.description =
               IF "description" \in DOMAIN data.v
               THEN PyStr(data.v.description.v) ELSE PyStr("")

\* a page whose metadata, stats and citations are null, whose images are
\* absent and whose fixedIssues and linkedPages have values was validated
C18_Witness ==
    /\ model_class = "Page"
    /\ DOMAIN data.v = {"slug", "title", "content", "description",
                        "citations", "metadata", "stats", "fixedIssues",
                        "linkedPages"}
    /\ data.v.citations.t = "null"
    /\ data.v.metadata.t = "null"
    /\ data.v.stats.t = "null"
    /\ data.v.linkedPages.t = "arr"
    /\ \E r \in validated :
           /\ r.ok
           /\ r.value.v.metadata = PyDict(EmptyDict)
           /\ r.value.v.stats = PyDict(EmptyDict)
           /\ r.value.v.citations = PyList(<<>>)
           /\ r.value.v.images = PyList(<<>>)
           /\ r.value.v.linked_pages = PyList(<< JStr("Guido_van_Rossum") >>)

\* the key "User-Agent" of the headers dict every attempt passes holds the
\* configured user agent
C19_ExactNameHasConfiguredValue ==
    \A i \in 1..Len(log) :
        IsAttempt(log[i])
        => /\ "User-Agent" \in DOMAIN log[i].request.headers
           /\ log[i].request.headers["User-Agent"] = user_agent

\* C19: every HTTP attempt of every call, retries included, carries a
\* User-Agent header equal to the configured user agent and no other: when
\* the headers of the caller name User-Agent too, the configured value wins.
C19_ConfiguredUserAgentWins ==
    \A i \in 1..Len(log) :
        IsAttempt(log[i])
        => Carried(log[i].request.headers, "User-Agent") = {user_agent}

\* the encoding of a boolean query parameter
C20_Encoded(b) == IF b THEN "true" ELSE "false"

C20_IsPageRequest(r) ==
    /\ r.method = "GET"
    /\ r.url = [origin |-> "https://grokipedia.com", path |-> "/api/page"]
    /\ r.params # None
    /\ \A p \in r.params :
           /\ DOMAIN p = {"slug", "includeContent", "validateLinks"}
           /\ p.slug = PyStr(args.slug)
           /\ p.includeContent =
                  PyStr(C20_Encoded(IF args.include_content = None THEN TRUE
                                    ELSE args.include_content = Some(TRUE)))
           /\ p.validateLinks =
                  PyStr(C20_Encoded(IF args.validate_links = None THEN FALSE
                                    ELSE args.validate_links = Some(TRUE)))

\* C20: for every slug and every include_content and validate_links, given
\* or left out, each attempt of get_page is a GET to /api/page whose query
\* parameters are exactly slug, includeContent and validateLinks, the
\* booleans as the strings "true" and "false", includeContent being "true"
\* and validateLinks "false" when left out; and get_page with a connection
\* resource and max_retries > 0 makes an attempt.
C20_GetPageRequest ==
    op = "get_page"
    => /\ \A i \in 1..Len(log) :
              IsAttempt(log[i]) => C20_IsPageRequest(log[i].request)
       /\ pc = "request" => C20_IsPageRequest(request)
       /\ (pc = "done" /\ log = <<>>)
              => result.kind \in {"RuntimeError", "GrokipediaNetworkError"}

\* get_page("Python", include_content=False) answered 503 and then 200: two
\* attempts, both with includeContent=false and validateLinks=false
C20_Witness ==
    /\ op = "get_page"
    /\ args = PageArgs("Python", Some(FALSE), None)
    /\ pc = "done"
    /\ result.kind = "return"
    /\ Len(log) = 3
    /\ IsStatusAttempt(log[1], 503)
    /\ IsStatusAttempt(log[3], 200)
    /\ \A p \in log[3].request.params :
           /\ p.includeContent = PyStr("false")
           /\ p.validateLinks = PyStr("false")

\* an except clause for cls catches an exception of class k
C21_Catches(cls, k) == IsInstance(k, cls)

\* C21: errors can be handled by class.  Every BadRequest, NotFound,
\* RateLimit and ServerError a call raises is caught by a handler for
\* APIError and by a handler for the common base error; every NetworkError
\* and ValidationError a call raises is caught by a handler for the common
\* base error and not by a handler for APIError.
C21_HandledByClass ==
    Raised
    => /\ result.kind \in {"GrokipediaBadRequestError",
                           "GrokipediaNotFoundError",
                           "GrokipediaRateLimitError",
                           "GrokipediaServerError"}
          => /\ C21_Catches("GrokipediaAPIError", result.kind)
             /\ C21_Catches("GrokipediaError", result.kind)
       /\ result.kind \in {"GrokipediaNetworkError",
                           "GrokipediaValidationError"}
          => /\ C21_Catches("GrokipediaError", result.kind)
             /\ ~C21_Catches("GrokipediaAPIError", result.kind)

\* a call whose first attempt failed at transport level and whose second,
\* last attempt returned 404 has raised NotFound
C21_Witness ==
    /\ Raised
    /\ max_retries = 2
    /\ Len(AttemptsMade) = 2
    /\ AttemptsMade[1].out = "NetworkError"
    /\ IsStatusAttempt(AttemptsMade[2], 404)
    /\ result.kind = "GrokipediaNotFoundError"

\* the value an attribute has when x was given for it, and the default when
\* nothing was given
C22_AsGiven(x, default) == IF x = None THEN default ELSE CHOOSE v \in x : TRUE

\* the call in progress or just ended has made a retry
C22_Retried == \E i \in 1..Len(log) : IsSleep(log[i])

\* C22 as stated: configuration is fixed at construction.  Whatever scope
\* entries, calls and scope exits have happened, each of base_url,
\* user_agent, timeout, max_retries, retry_backoff_factor and
\* retry_backoff_jitter is the value given to the constructor, or the
\* default where none was given.
C22_ConfigurationAsGiven ==
    /\ base_url = C22_AsGiven(init_args.base_url,
                              [origin |-> "https://grokipedia.com",
                               path |-> ""])
    /\ user_agent = C22_AsGiven(init_args.user_agent,
                                "Mozilla/5.0 (Grokipedia Python SDK)")
    /\ timeout = C22_AsGiven(init_args.timeout, 30)
    /\ max_retries = C22_AsGiven(init_args.max_retries, 3)
    /\ retry_backoff_factor = C22_AsGiven(init_args.retry_backoff_factor, 10)
    /\ retry_backoff_jitter = C22_AsGiven(init_args.retry_backoff_jitter, TRUE)

\* an empty string given for base_url or user_agent counts as not given
C22_AsGivenNonEmpty(x, empty, default) ==
    IF x = None \/ x = Some(empty) THEN default ELSE CHOOSE v \in x : TRUE

\* C22 amended: configuration is fixed at construction.  Whatever scope
\* entries, calls and scope exits have happened, each of timeout,
\* max_retries, retry_backoff_factor and retry_backoff_jitter is the value
\* given to the constructor, or the default where none was given; base_url
\* and user_agent are the value given if it is a non-empty string, and the
\* default where none or the empty string was given.
C22_ConfigurationFixed ==
    /\ base_url = C22_AsGivenNonEmpty(init_args.base_url,
                                      [origin |-> "", path |-> ""],
                                      [origin |-> "https://grokipedia.com",
                                       path |-> ""])
    /\ user_agent = C22_AsGivenNonEmpty(init_args.user_agent, "",
                                        "Mozilla/5.0 (Grokipedia Python SDK)")
    /\ timeout = C22_AsGiven(init_args.timeout, 30)
    /\ max_retries = C22_AsGiven(init_args.max_retries, 3)
    /\ retry_backoff_factor = C22_AsGiven(init_args.retry_backoff_factor, 10)
    /\ retry_backoff_jitter = C22_AsGiven(init_args.retry_backoff_jitter, TRUE)

\* an instance given a base URL, a timeout and max_retries = 2 and no user
\* agent, after a scope entry and a call that was retried and failed
C22_Witness ==
    /\ init_args.base_url = Some([origin |-> "https://custom.example.com",
                                  path |-> ""])
    /\ init_args.user_agent = None
    /\ init_args.timeout = Some(60)
    /\ init_args.max_retries = Some(2)
    /\ created = 1
    /\ depth = 1
    /\ Raised
    /\ C22_Retried

\* the call ended at the raise after the for loop of _request
C23_EndedAfterLoop == Ended /\ result.site = "after_loop"

\* with max_retries >= 1 no call ends at the raise after the loop
C23_UnreachableWithAttempts == max_retries >= 1 => ~C23_EndedAfterLoop

\* C23: the raise after the retry loop is not a reachable path.  For every
\* configuration the constructor accepts and every sequence of attempt
\* outcomes, a call made inside an active scope ends by a return or a raise
\* from within a loop iteration, never by the statement after the loop.
C23_FallthroughUnreachable == PassedGuard => ~C23_EndedAfterLoop

\* the error kind the taxonomy assigns to a status code
C24_KindOf(c) ==
    CASE c = 400            -> "GrokipediaBadRequestError"
      [] c = 404            -> "GrokipediaNotFoundError"
      [] c = 429            -> "GrokipediaRateLimitError"
      [] c \in 500..599     -> "GrokipediaServerError"
      [] OTHER              -> "GrokipediaAPIError"

\* C24: status classification is total and always raises.  For every status
\* code that is not 2xx the classifier ends by raising one error, never by
\* returning: BadRequest for 400, NotFound for 404, RateLimit for 429,
\* ServerError for 500..599 and the generic APIError for every other code;
\* the error's status_code is the status of the response and its
\* response_body is the text of the response, absent when the text cannot
\* be read.
C24_ClassificationTotal ==
    \A r \in handled :
        /\ r.kind = C24_KindOf(response.status_code)
        /\ r.kind \notin {"return", "pending"}
        /\ IsInstance(r.kind, "GrokipediaAPIError")
        /\ r.value = None
        /\ r.status_code = Some(response.status_code)
        /\ r.response_body = response.text

\* a 418 whose text cannot be read has raised the generic APIError without
\* a response body
C24_Witness ==
    /\ response = ErrorResponse(418, None)
    /\ \E r \in handled :
           /\ r.kind = "GrokipediaAPIError"
           /\ r.status_code = Some(418)
           /\ r.response_body = None

\* with a retry_backoff_factor that is not negative, every delay is >= 0
\* and no sleep fails
C25_NonNegativeFactor ==
    retry_backoff_factor >= 0
    => /\ \A i \in 1..Len(log) : IsSleep(log[i]) => log[i].delay >= 0
       /\ result.kind # "ValueError"

\* C25: backoff is non-negative.  For every configuration the constructor
\* accepts, every attempt index and both jitter settings, the delay computed
\* for a retry is >= 0, and no call ends because its backoff sleep was given
\* a negative duration.
C25_BackoffNonNegative ==
    /\ \A i \in 1..Len(log) : IsSleep(log[i]) => log[i].delay >= 0
    /\ result.kind # "ValueError"

\* the error kind that the outcome of an attempt stands for
C26_KindFor(ev) ==
    CASE ev.out \in {"NetworkError", "TimeoutException"} ->
             "GrokipediaNetworkError"
      [] ev.out = "response" /\ ev.status = 400 -> "GrokipediaBadRequestError"
      [] ev.out = "response" /\ ev.status = 404 -> "GrokipediaNotFoundError"
      [] ev.out = "response" /\ ev.status = 429 -> "GrokipediaRateLimitError"
      [] ev.out = "response" /\ ev.status \in 500..599 ->
             "GrokipediaServerError"
      [] OTHER -> "GrokipediaAPIError"

\* the attempt failed with a status or at transport level
C26_IsFailure(ev) ==
    \/ ev.out \in {"NetworkError", "TimeoutException"}
    \/ ev.out = "response" /\ ev.status \notin 200..299

\* C26: failures of mixed kinds share one retry budget, and the last attempt
\* decides the error.  The attempts of a call are numbered 0, 1, 2, ...
\* whatever the kinds of the failures before them, and there are at most
\* max_retries; a call whose attempts all failed in a retryable way has
\* made exactly max_retries when it raises; and when the last attempt made
\* failed, the error raised is the one that attempt stands for - the
\* APIError variant of its status with that status_code, or NetworkError
\* for a network failure or timeout - whatever the earlier attempts were.
C26_LastAttemptDecides ==
    LET n == Len(AttemptsMade)
    IN  /\ n <= max_retries
        /\ \A i \in 1..n : AttemptsMade[i].attempt = i - 1
        /\ (Raised /\ n >= 1 /\ C26_IsFailure(AttemptsMade[n]))
           => /\ result.kind = C26_KindFor(AttemptsMade[n])
              /\ AttemptsMade[n].out = "response"
                 => result.status_code = Some(AttemptsMade[n].status)
              /\ AttemptsMade[n].out # "response"
                 => result.status_code = None
              /\ (\A i \in 1..n : IsRetryableFailure(AttemptsMade[i]))
                 => n = max_retries

\* a network failure, then a 503, then a 429 on the third and last attempt:
\* RateLimit
C26_Witness ==
    /\ Raised
    /\ max_retries = 3
    /\ Len(AttemptsMade) = 3
    /\ AttemptsMade[1].out = "NetworkError"
    /\ IsStatusAttempt(AttemptsMade[2], 503)
    /\ IsStatusAttempt(AttemptsMade[3], 429)
    /\ result.kind = "GrokipediaRateLimitError"
    /\ result.status_code = Some(429)

\* a call is in its retry loop: an attempt is to be issued or it sleeps
C27_InLoop == pc \in {"request", "sleep"}

\* C27: every call inside an active scope terminates.  Provided each HTTP
\* attempt and each backoff sleep completes, a call that has entered the
\* retry loop eventually returns or raises, whatever the outcomes of its
\* attempts; and at every moment it has made at most max_retries attempts
\* and, if any, at most max_retries - 1 sleeps.
C27_CallTerminates ==
    /\ [](/\ Len(AttemptsMade) <= max_retries
          /\ Len(SleepsDone) = 0 \/ Len(SleepsDone) <= max_retries - 1)
    /\ (C27_InLoop ~> Ended)

\* a call has ended after three attempts and two sleeps
C27_Witness ==
    /\ Ended
    /\ PassedGuard
    /\ max_retries = 3
    /\ Len(AttemptsMade) = 3
    /\ Len(SleepsDone) = 2

\* the attempt events of the call of caller t
C28_Attempts(t) == SelectSeq(tasks[t].log, IsAttempt)

\* the record of the call of caller t is consistent with a retry loop of
\* its own: its attempts are numbered 0, 1, 2, ... and are at most
\* max_retries, each sleep follows a failed attempt of this call and has the
\* delay of that attempt's index, and the result is that of its own last
\* attempt, after max_retries attempts if they all failed
C28_OwnRetryState(t) ==
    LET events == tasks[t].log
        n == Len(C28_Attempts(t))
    IN  /\ n <= max_retries
        /\ \A i \in 1..n : C28_Attempts(t)[i].attempt = i - 1
        /\ tasks[t].pc = "request" => tasks[t].attempt = n
        /\ tasks[t].pc = "sleep" => tasks[t].attempt = n - 1
        /\ \A i \in 1..Len(events) :
               IsSleep(events[i])
               => /\ i > 1
                  /\ IsStatusAttempt(events[i - 1], 503)
                  /\ events[i].attempt = events[i - 1].attempt
                  /\ events[i].delay =
                         retry_backoff_factor * Pow2(events[i].attempt)
        /\ (tasks[t].pc = "done" /\ n >= 1)
           => IF IsStatusAttempt(C28_Attempts(t)[n], 503)
              THEN /\ tasks[t].result.kind = "GrokipediaServerError"
                   /\ n = max_retries
              ELSE tasks[t].result.kind = "return"

\* a step changes the record of one caller at most, and changes its log
\* only by adding events to it or by dropping it when the call is delivered
C28_OwnStep ==
    \A t \in Tasks :
        tasks'[t] # tasks[t]
        => /\ \A u \in Tasks \ {t} : tasks'[u] = tasks[u]
           /\ \/ tasks'[t].log = <<>>
              \/ /\ Len(tasks'[t].log) >= Len(tasks[t].log)
                 /\ SubSeq(tasks'[t].log, 1, Len(tasks[t].log)) = tasks[t].log

\* C28: calls issued concurrently on one instance of the concurrent facade
\* have independent retry state.  Under every interleaving each call makes
\* at most max_retries attempts of its own, numbered and delayed by its own
\* attempt index; an attempt of one call, failed or not, changes nothing of
\* another call - not its attempt index, its budget or its delays; and the
\* result or error of each call is that of its own attempts.
C28_IndependentRetryState ==
    /\ [](\A t \in Tasks : C28_OwnRetryState(t))
    /\ [][C28_OwnStep]_vars

\* one caller is about to issue its second attempt while the call of
\* another sleeps after its first
C28_Witness ==
    \E t \in Tasks : \E u \in Tasks \ {t} :
        /\ tasks[t].pc = "request"
        /\ tasks[t].attempt = 1
        /\ Len(tasks[t].log) = 2
        /\ tasks[u].pc = "sleep"
        /\ tasks[u].attempt = 0
        /\ Len(tasks[u].log) = 2

\* C29: on the concurrent facade every HTTP attempt of a call is issued on
\* an acquired resource, under every interleaving.  Also when the scope
\* exits while a call started inside it is suspended in a backoff sleep, no
\* attempt of the call runs against a missing resource, and the call ends
\* with a result, an error of the taxonomy or the usage error, never with
\* an exception of another kind.
C29_AttemptsOnAcquiredResource ==
    \A t \in Tasks :
        /\ \A i \in 1..Len(tasks[t].log) :
               IsAttempt(tasks[t].log[i]) => tasks[t].log[i].resource # None
        /\ tasks[t].pc = "done"
           => tasks[t].result.kind \in {"return", "RuntimeError"}
                                           \cup TaxonomyKinds

====
